---- MODULE Spec2Model ----
(***************************************************************************)
(* Model of the financial engine of src/utils/matematicas_financieras.py.  *)
(*                                                                         *)
(* The library is a set of functions; the state of the model is the last   *)
(* call that was made: which function (op), with which arguments (args),   *)
(* and what it returned or raised (ret).  One action per public function;  *)
(* Return hands control back to the caller, who may then call again.       *)
(*                                                                         *)
(* Numbers are exact rationals <<n, d>> with d > 0 and gcd(n, d) = 1, so   *)
(* "equal up to floating tolerance" is checked as equality in Q.  Powers   *)
(* are taken with integer exponents only, so every input that the code     *)
(* uses as an exponent is drawn from integers.                             *)
(***************************************************************************)
EXTENDS Integers, Sequences, FiniteSets, TLC

VARIABLES op, args, ret,
          rng,     \* state of the process-wide generator behind np.random
          seen     \* history: one earlier monte_carlo_npv call, <<>> when none is remembered

vars == <<op, args, ret, rng, seen>>

(***************************************************************************)
(* Bounds of the model.                                                    *)
(***************************************************************************)
MaxLen == 2        \* longest generated cash-flow list
MaxPeriods == 3    \* longest loan, in periods
MaxIter == 3       \* largest max_iter handed to internal_rate_of_return
MaxBatch == 2      \* longest array handed to batch_loan_analysis
MaxSweep == 2      \* longest r_range handed to sensitivity_analysis_npv
MaxSims == 2       \* largest simulations handed to monte_carlo_npv
MaxVec == 2        \* longest array handed to a dual-mode function
MaxOutcomes == 3   \* longest result array handed to plot_monte_carlo_results
MaxLines == 2      \* most lines in the output of git status --porcelain
FloatBits == 8     \* bits of the significand of the binary floating-point format (53 in Python)

(***************************************************************************)
(* Exact rational arithmetic standing for Python / numpy float arithmetic. *)
(***************************************************************************)
Abs(x) == IF x < 0 THEN -x ELSE x

RECURSIVE GCD(_, _)
GCD(a, b) == IF b = 0 THEN a ELSE GCD(b, a % b)

Rat(n, d) ==
    LET s == IF d < 0 THEN -1 ELSE 1
        g == GCD(Abs(n), Abs(d))
    IN  <<(s * n) \div g, (s * d) \div g>>

R(n) == <<n, 1>>
Zero == R(0)
One == R(1)

RNeg(a) == <<-a[1], a[2]>>

RAdd(a, b) ==
    LET g == GCD(a[2], b[2])
    IN  Rat(a[1] * (b[2] \div g) + b[1] * (a[2] \div g), a[2] * (b[2] \div g))

RSub(a, b) == RAdd(a, RNeg(b))

RMul(a, b) ==
    LET g1 == GCD(Abs(a[1]), b[2])
        g2 == GCD(Abs(b[1]), a[2])
    IN  IF a[1] = 0 \/ b[1] = 0 THEN Zero
        ELSE <<(a[1] \div g1) * (b[1] \div g2), (a[2] \div g2) * (b[2] \div g1)>>

RInv(a) == IF a[1] < 0 THEN <<-a[2], -a[1]>> ELSE <<a[2], a[1]>>

RDiv(a, b) == RMul(a, RInv(b))

RLt(a, b) == RSub(a, b)[1] < 0
RLe(a, b) == RSub(a, b)[1] <= 0
RAbs(a) == <<Abs(a[1]), a[2]>>

RECURSIVE RPowNat(_, _)
RPowNat(x, k) == IF k = 0 THEN One ELSE RMul(x, RPowNat(x, k - 1))

\* x ** k for an integer k (x # 0 when k < 0)
RPow(x, k) == IF k >= 0 THEN RPowNat(x, k) ELSE RInv(RPowNat(x, -k))

\* the integer a rational with denominator 1 stands for
RInt(a) == a[1]

(***************************************************************************)
(* Input domains.                                                          *)
(***************************************************************************)
FlowVals == {-10, 0, 1, 5, 10}

RECURSIVE SeqsUpTo(_, _)
SeqsUpTo(S, n) ==
    IF n = 0 THEN {<<>>}
    ELSE LET shorter == SeqsUpTo(S, n - 1)
         IN  shorter \cup {Append(s, x) : s \in {t \in shorter : Len(t) = n - 1}, x \in S}

Scenarios == {<<3000, 4000, 5000>>, <<3500, 4500, 5500>>}
FlowLists == SeqsUpTo(FlowVals, MaxLen)
\* initial investments, the ordinary ones first
InvestmentList == <<8, 5, 0, -1>>
Investments == {InvestmentList[k] : k \in 1..Len(InvestmentList)}
\* <<initial_investment, cash_flows>>: the generated projects and the reference ones
NpvProjects == (Investments \X FlowLists) \cup ({10000} \X Scenarios)
NpvRates == {<<-1, 2>>, <<0, 1>>, <<1, 10>>, <<1, 2>>, <<1, 1>>}
Frequencies == {1, 2}
\* Optional[int]: <<>> is None, <<t>> is the integer t
OptPeriods == {<<>>, <<1>>, <<3>>}
\* sensitivity_analysis_npv: <<initial_investment, cash_flows>> and the rate arrays
SweepProjects == {0, 8} \X {<<>>, <<5>>, <<0, 5>>, <<1, 5>>, <<-10, 10>>}
RateRanges == SeqsUpTo(NpvRates, MaxSweep)
\* rate conversions: r and the compounding frequency m (the code checks neither)
ConversionRates == {<<1, 50>>, <<1, 10>>, <<1, 1>>}
ConversionFrequencies == {-1, 0, 1, 2}
\* annuities: C, r, T, m
AnnuityPayments == {<<0, 1>>, <<100, 1>>, <<-50, 1>>}
AnnuityRates == {<<0, 1>>, <<1, 10>>, <<1, 2>>}
AnnuityYears == {0, 1, 2}
AnnuityFrequencies == {0, 1, 2}
\* dual-mode calls: the functions, and for each the values of its parameters
\* in the order of its def line (whole numbers for nper, per, T and m)
Wrappers == {"present_value", "future_value", "payment_amount", "payment_interest",
             "payment_principal"}
Conversions == {"nominal_to_effective_rate", "effective_annual_rate", "annualized_rate"}
Annuities == {"present_value_annuity", "future_value_annuity"}
DualFunctions == Wrappers \cup Conversions \cup Annuities
VecRates == {<<0, 1>>, <<1, 10>>}
VecCounts == {<<1, 1>>, <<2, 1>>}
VecAmounts == {<<100, 1>>, <<50, 1>>}
ArgDomains(f) ==
    CASE f \in Conversions -> <<{<<1, 10>>, <<1, 2>>}, VecCounts>>
      [] f = "present_value" -> <<VecRates, VecCounts, VecAmounts, {<<0, 1>>, <<5, 1>>}>>
      [] f = "future_value" -> <<VecAmounts, VecRates, VecCounts, {<<0, 1>>, <<5, 1>>}>>
      [] f = "payment_amount" -> <<VecRates, VecCounts, VecAmounts, {<<0, 1>>, <<5, 1>>}>>
      [] f \in {"payment_interest", "payment_principal"} ->
             <<VecRates, {<<1, 1>>}, VecCounts, VecAmounts, {<<0, 1>>, <<5, 1>>}>>
      [] f \in Annuities -> <<VecAmounts, VecRates, VecCounts, VecCounts>>
\* the argument tuples of f, one value per parameter
ArgTuples(f) ==
    LET doms == ArgDomains(f)
        all == UNION {doms[j] : j \in 1..Len(doms)}
    IN  {a \in [1..Len(doms) -> all] : \A j \in 1..Len(doms) : a[j] \in doms[j]}
\* the non-empty arrays of parameter j of f
ArgArrays(f, j) == SeqsUpTo(ArgDomains(f)[j], MaxVec) \ {<<>>}
\* monte_carlo_npv: cash_flows (initial investment first), the parameters, simulations
McFlows == {<<>>, <<-100>>, <<-100, 60>>, <<-100, 60, 50>>}
McMeans == {<<1, 10>>, <<-1, 2>>}
McFlowVolatilities == {<<0, 1>>, <<1, 2>>}
McRateVolatilities == {<<0, 1>>, <<1, 1>>}
Simulations == (-1)..MaxSims
\* plot_monte_carlo_results: npv_results
OutcomeArrays == SeqsUpTo({<<-5, 1>>, <<0, 1>>, <<5, 1>>}, MaxOutcomes)
\* git status --porcelain: a line is its two status columns, <<>> a blank line
StatusLines == {<<>>, <<"?", "?">>, <<"M", " ">>, <<" ", "M">>, <<"A", " ">>, <<" ", "D">>,
                <<"R", " ">>, <<"U", "U">>, <<" ", "T">>}
StatusOutputs == SeqsUpTo(StatusLines, MaxLines)
\* what subprocess.run does with a git command: it raises, or git exits
GitRaised == [raised |-> TRUE, returncode |-> 0, stdout |-> <<>>, stderr |-> "No such file or directory: 'git'"]
GitFailed == [raised |-> FALSE, returncode |-> 128, stdout |-> <<>>, stderr |-> "fatal: not a git repository"]
GitSucceeded(stdout) == [raised |-> FALSE, returncode |-> 0, stdout |-> stdout, stderr |-> ""]
RevParseOutcomes == {GitRaised, GitFailed, GitSucceeded(<<>>)}
StatusOutcomes == {GitRaised, GitFailed} \cup {GitSucceeded(lines) : lines \in StatusOutputs}
\* internal_rate_of_return: <<initial_investment, cash_flows>>
IrrProjects ==
    {<<0, <<>>>>, <<5, <<>>>>, <<5, <<0>>>>, <<0, <<11>>>>, <<10, <<11>>>>,
     <<20, <<11>>>>, <<5, <<11>>>>, <<20, <<22>>>>, <<40, <<22>>>>,
     <<0, <<-20, 11>>>>, <<100, <<0, 121>>>>, <<320, <<11, 121>>>>}
Precisions == {<<1, 100>>, <<1, 2>>}

\* present_value / future_value: first and third positional arguments
Amounts == {<<0, 1>>, <<1, 10>>, <<1, 1>>, <<3, 1>>, <<8, 1>>}
\* second positional argument of present_value (its nper)
SmallInts == {0, 1, 2}
FutureValues == {<<0, 1>>, <<5, 1>>}
\* loans: per-period rate, principal
LoanRates == {<<0, 1>>, <<1, 10>>, <<1, 2>>, <<1, 1>>}
Principals == {<<100, 1>>, <<1000, 1>>}
\* batch_loan_analysis: one loan is <<principal, rate, periods>>; the rate is whole
\* (100 % or 200 % per period) because the code uses it as an exponent
BatchArrays == SeqsUpTo({1, 2}, MaxBatch) \ {<<>>}

(***************************************************************************)
(* numpy_financial, as the engine calls it (when = 'end', i.e. 0).         *)
(***************************************************************************)
\* npf.pmt: -(fv + pv*temp) / fact, temp = (1+rate)**nper,
\* fact = nper when rate == 0, else (temp - 1) / rate
npf_pmt(rate, nper, pv, fv) ==
    LET temp == RPow(RAdd(One, rate), nper)
        fact == IF rate = Zero THEN R(nper) ELSE RDiv(RSub(temp, One), rate)
    IN  RNeg(RDiv(RAdd(fv, RMul(pv, temp)), fact))

\* npf.fv: -(pv + pmt*nper) when rate == 0,
\* else -pv*temp - pmt/rate*(temp - 1)
npf_fv(rate, nper, pmt, pv) ==
    IF rate = Zero THEN RNeg(RAdd(pv, RMul(pmt, R(nper))))
    ELSE LET temp == RPow(RAdd(One, rate), nper)
         IN  RSub(RNeg(RMul(pv, temp)), RMul(RDiv(pmt, rate), RSub(temp, One)))

\* npf.pv: -(fv + pmt*fact) / temp
npf_pv(rate, nper, pmt, fv) ==
    LET temp == RPow(RAdd(One, rate), nper)
        fact == IF rate = Zero THEN R(nper) ELSE RDiv(RSub(temp, One), rate)
    IN  RNeg(RDiv(RAdd(fv, RMul(pmt, fact)), temp))

\* npf.ipmt (per >= 1): the remaining balance after per-1 payments, times rate
npf_ipmt(rate, per, nper, pv, fv) ==
    LET total_pmt == npf_pmt(rate, nper, pv, fv)
    IN  RMul(npf_fv(rate, per - 1, total_pmt, pv), rate)

\* npf.ppmt: pmt - ipmt
npf_ppmt(rate, per, nper, pv, fv) ==
    RSub(npf_pmt(rate, nper, pv, fv), npf_ipmt(rate, per, nper, pv, fv))

(***************************************************************************)
(* TimeValueEngine: parameters in the order of the def lines.              *)
(***************************************************************************)
present_value(rate, nper, pmt, fv) == RNeg(npf_pv(rate, nper, pmt, fv))

future_value(pv, rate, nper, pmt) == RNeg(npf_fv(rate, nper, pmt, RNeg(pv)))

(***************************************************************************)
(* AmortizationEngine                                                      *)
(***************************************************************************)
payment_amount(rate, nper, pv, fv) == RNeg(npf_pmt(rate, nper, pv, fv))

\* payment_interest without the change of sign
payment_interest_unsigned(rate, per, nper, pv, fv) == npf_ipmt(rate, per, nper, pv, fv)

payment_interest(rate, per, nper, pv, fv) == RNeg(npf_ipmt(rate, per, nper, pv, fv))

\* payment_principal without the change of sign
payment_principal_unsigned(rate, per, nper, pv, fv) == npf_ppmt(rate, per, nper, pv, fv)

payment_principal(rate, per, nper, pv, fv) == RNeg(npf_ppmt(rate, per, nper, pv, fv))

(***************************************************************************)
(* numpy values: a Python scalar or a one-dimensional array, and numpy's   *)
(* broadcasting of an operation over several of them.                      *)
(***************************************************************************)
Scalar(x) == [shape |-> "scalar", elems |-> <<x>>]
Array(s) == [shape |-> "array", elems |-> s]
np_isscalar(v) == v.shape = "scalar"
AllScalar(vs) == \A j \in 1..Len(vs) : np_isscalar(vs[j])
\* operands of length 1 stretch; the others must agree
Lengths(vs) == {Len(vs[j].elems) : j \in 1..Len(vs)} \ {1}
Broadcastable(vs) == Cardinality(Lengths(vs)) <= 1
BroadcastLen(vs) == IF Lengths(vs) = {} THEN 1 ELSE CHOOSE n \in Lengths(vs) : TRUE
Elem(v, i) == IF Len(v.elems) = 1 THEN v.elems[1] ELSE v.elems[i]
ElemArgs(vs, i) == [j \in 1..Len(vs) |-> Elem(vs[j], i)]
ValueError == [kind |-> "ValueError", val |-> <<>>]

(***************************************************************************)
(* BatchLoanAnalyzer: the three calls pass (principals, rates, periods)    *)
(* positionally, so principals land in rate, rates in nper (or per), and   *)
(* periods in pv.  numpy broadcasts the three arrays against each other.   *)
(***************************************************************************)
batch_loan_analysis(principals, rates, periods) ==
    LET vs == <<Array(principals), Array(rates), Array(periods)>>
        n == BroadcastLen(vs)
        P(i) == Elem(vs[1], i)
        r(i) == Elem(vs[2], i)
        T(i) == Elem(vs[3], i)
        payments == [i \in 1..n |-> payment_amount(R(P(i)), r(i), R(T(i)), Zero)]
        first_interest == [i \in 1..n |-> payment_interest(R(P(i)), r(i), 1, R(T(i)), Zero)]
        first_principal == [i \in 1..n |-> payment_principal(R(P(i)), r(i), 1, R(T(i)), Zero)]
        total_paid == [i \in 1..n |-> RMul(payments[i], R(T(i)))]
        total_interest == [i \in 1..n |-> RSub(total_paid[i], R(P(i)))]
    IN  IF ~Broadcastable(vs)
        THEN [kind |-> "ValueError"]
        ELSE [kind |-> "return",
              payments |-> payments,
              first_interest |-> first_interest,
              first_principal |-> first_principal,
              total_paid |-> total_paid,
              total_interest |-> total_interest,
              interest_ratio |-> [i \in 1..n |-> RDiv(total_interest[i], R(P(i)))]]

(***************************************************************************)
(* InvestmentAppraiser                                                     *)
(***************************************************************************)
RECURSIVE NpvSumCompounding(_, _, _, _)
\* NpvSum with each flow compounded instead of discounted
NpvSumCompounding(cash_flows, r, m, i) ==
    IF i >= Len(cash_flows) THEN Zero
    ELSE LET base == RAdd(One, RDiv(r, R(m)))
         IN  RAdd(RMul(R(cash_flows[i + 1]), RPow(base, i + 1)),
                  NpvSumCompounding(cash_flows, r, m, i + 1))

RECURSIVE NpvSum(_, _, _, _)
\* the loop of net_present_value over enumerate(cash_flows), from index i (0-based)
NpvSum(cash_flows, r, m, i) ==
    IF i >= Len(cash_flows) THEN Zero
    ELSE LET time_period == RDiv(R(i + 1), R(m))
             exponent == RInt(RMul(R(m), time_period))
             base == RAdd(One, RDiv(r, R(m)))
         IN  RAdd(RDiv(R(cash_flows[i + 1]), RPow(base, exponent)),
                  NpvSum(cash_flows, r, m, i + 1))

\* net_present_value discounting the first T cash flows only
net_present_value_truncated(initial_investment, cash_flows, r, T, m) ==
    LET T1 == IF T = <<>> THEN Len(cash_flows) ELSE T[1]
        counted == SubSeq(cash_flows, 1, IF T1 < Len(cash_flows) THEN T1 ELSE Len(cash_flows))
    IN  RAdd(RNeg(R(initial_investment)), NpvSum(counted, r, m, 0))

net_present_value(initial_investment, cash_flows, r, T, m) ==
    LET T1 == IF T = <<>> THEN Len(cash_flows) ELSE T[1]
    IN  RAdd(RNeg(R(initial_investment)), NpvSum(cash_flows, r, m, 0))

\* present_value_sum / initial_investment; the loop is that of net_present_value
profitability_index(initial_investment, cash_flows, r, T, m) ==
    LET T1 == IF T = <<>> THEN Len(cash_flows) ELSE T[1]
        present_value_sum == NpvSum(cash_flows, r, m, 0)
    IN  IF initial_investment = 0 THEN [kind |-> "ZeroDivisionError", val |-> Zero]
        ELSE [kind |-> "num", val |-> RDiv(present_value_sum, R(initial_investment))]

\* NPV and its derivative at rate, as the inner loop of internal_rate_of_return
\* accumulates them from index i (0-based)
RECURSIVE IrrNpv(_, _, _)
IrrNpv(cash_flows, rate, i) ==
    IF i >= Len(cash_flows) THEN Zero
    ELSE RAdd(RDiv(R(cash_flows[i + 1]), RPow(RAdd(One, rate), i + 1)),
              IrrNpv(cash_flows, rate, i + 1))

RECURSIVE IrrDerivative(_, _, _)
IrrDerivative(cash_flows, rate, i) ==
    IF i >= Len(cash_flows) THEN Zero
    ELSE RSub(IrrDerivative(cash_flows, rate, i + 1),
              RDiv(R(cash_flows[i + 1] * (i + 1)), RPow(RAdd(One, rate), i + 2)))

IrrResult(kind, exit, rate, iters) ==
    [kind |-> kind, exit |-> exit, rate |-> rate, iters |-> iters]

RECURSIVE IrrLoopNoAbs(_, _, _, _, _, _)
\* IrrLoop with the convergence test npv < precision
IrrLoopNoAbs(initial_investment, cash_flows, max_iter, precision, rate, it) ==
    IF it >= max_iter THEN IrrResult("return", "exhausted", rate, it)
    ELSE IF cash_flows # <<>> /\ RAdd(One, rate) = Zero
    THEN IrrResult("ZeroDivisionError", "raised", rate, it + 1)
    ELSE LET npv == RAdd(RNeg(R(initial_investment)), IrrNpv(cash_flows, rate, 0))
             npv_derivative == IrrDerivative(cash_flows, rate, 0)
         IN  IF RLt(npv, precision)
             THEN IrrResult("return", "converged", rate, it + 1)
             ELSE IF npv_derivative = Zero
             THEN IrrResult("return", "stalled", rate, it + 1)
             ELSE IrrLoopNoAbs(initial_investment, cash_flows, max_iter, precision,
                               RSub(rate, RDiv(npv, npv_derivative)), it + 1)

RECURSIVE IrrLoop(_, _, _, _, _, _)
\* the for loop of internal_rate_of_return, entering iteration it (0-based) at rate;
\* cf / (1 + rate) ** period raises ZeroDivisionError when rate is -1
IrrLoop(initial_investment, cash_flows, max_iter, precision, rate, it) ==
    IF it >= max_iter THEN IrrResult("return", "exhausted", rate, it)
    ELSE IF cash_flows # <<>> /\ RAdd(One, rate) = Zero
    THEN IrrResult("ZeroDivisionError", "raised", rate, it + 1)
    ELSE LET npv == RAdd(RNeg(R(initial_investment)), IrrNpv(cash_flows, rate, 0))
             npv_derivative == IrrDerivative(cash_flows, rate, 0)
         IN  IF RLt(RAbs(npv), precision)
             THEN IrrResult("return", "converged", rate, it + 1)
             ELSE IF npv_derivative = Zero
             THEN IrrResult("return", "stalled", rate, it + 1)
             ELSE IrrLoop(initial_investment, cash_flows, max_iter, precision,
                          RSub(rate, RDiv(npv, npv_derivative)), it + 1)

\* rate = 0.1
InitialRate == <<1, 10>>

\* internal_rate_of_return with the estimate starting at 0
internal_rate_of_return_from_zero(initial_investment, cash_flows, max_iter, precision) ==
    IrrLoop(initial_investment, cash_flows, max_iter, precision, Zero, 0)

internal_rate_of_return(initial_investment, cash_flows, max_iter, precision) ==
    IrrLoop(initial_investment, cash_flows, max_iter, precision, InitialRate, 0)

RECURSIVE PaybackScanFlipped(_, _, _, _)
\* PaybackScan with the recovery test turned round
PaybackScanFlipped(initial_investment, cash_flows, i, cum) ==
    IF i >= Len(cash_flows) THEN [kind |-> "inf", val |-> Zero]
    ELSE LET cf == cash_flows[i + 1]
             cumulative_cash_flow == cum + cf
         IN  IF cumulative_cash_flow <= initial_investment
             THEN IF cf = 0
                  THEN [kind |-> "ZeroDivisionError", val |-> Zero]
                  ELSE [kind |-> "num",
                        val |-> RAdd(R(i), Rat(initial_investment - cum, cf))]
             ELSE PaybackScanFlipped(initial_investment, cash_flows, i + 1, cumulative_cash_flow)

RECURSIVE PaybackScan(_, _, _, _)
\* the loop of payback_period; i is the 0-based index, cum the running total
PaybackScan(initial_investment, cash_flows, i, cum) ==
    IF i >= Len(cash_flows) THEN [kind |-> "inf", val |-> Zero]
    ELSE LET cf == cash_flows[i + 1]
             cumulative_cash_flow == cum + cf
             previous_cumulative == cumulative_cash_flow - cf
         IN  IF cumulative_cash_flow >= initial_investment
             THEN IF cf = 0
                  THEN [kind |-> "ZeroDivisionError", val |-> Zero]
                  ELSE [kind |-> "num",
                        val |-> RAdd(R(i), Rat(initial_investment - previous_cumulative, cf))]
             ELSE PaybackScan(initial_investment, cash_flows, i + 1, cumulative_cash_flow)

payback_period(initial_investment, cash_flows) ==
    PaybackScan(initial_investment, cash_flows, 0, 0)

(***************************************************************************)
(* Rate conversions and annuities on Python numbers.  A result is a record *)
(* whose kind is "num" or the exception the expression raises.             *)
(***************************************************************************)
Num(x) == [kind |-> "num", val |-> x]
ZeroDivisionError == [kind |-> "ZeroDivisionError", val |-> Zero]

\* base ** k - 1 for an integer k; 0 ** k raises ZeroDivisionError when k < 0
PowMinusOne(base, k) ==
    IF base = Zero /\ k < 0 THEN ZeroDivisionError
    ELSE Num(RSub(RPow(base, k), One))

nominal_to_effective_rate(r, m) ==
    IF m = 0 THEN ZeroDivisionError ELSE Num(RDiv(r, R(m)))

effective_annual_rate(r, m) ==
    IF m = 0 THEN ZeroDivisionError
    ELSE PowMinusOne(RAdd(One, RDiv(r, R(m))), m)

annualized_rate(r, m) == PowMinusOne(RAdd(One, r), m)

(***************************************************************************)
(* Binary floating point: the nearest number with FloatBits significant    *)
(* bits, ties to even.  Python evaluates every arithmetic operation of a   *)
(* float expression exactly and then rounds it.                            *)
(***************************************************************************)
RECURSIVE ExponentFrom(_, _)
\* the e with 2^e <= x < 2^(e+1), for x > 0, searched from e
ExponentFrom(x, e) ==
    IF RLe(RPow(R(2), e + 1), x) THEN ExponentFrom(x, e + 1)
    ELSE IF RLt(x, RPow(R(2), e)) THEN ExponentFrom(x, e - 1)
    ELSE e

\* the integer nearest to the rational k >= 0, ties to even
RoundHalfEven(k) ==
    LET f == k[1] \div k[2]
        twice_rem == 2 * (k[1] % k[2])
    IN  IF twice_rem > k[2] \/ (twice_rem = k[2] /\ f % 2 = 1) THEN f + 1 ELSE f

Fl(x) ==
    IF x[1] = 0 THEN Zero
    ELSE LET quantum == RPow(R(2), ExponentFrom(RAbs(x), 0) - FloatBits + 1)
             k == RoundHalfEven(RDiv(RAbs(x), quantum))
         IN  RMul(R(IF x[1] < 0 THEN -k ELSE k), quantum)

\* (1 + r / m) ** m - 1 on floats: r is a float, m an int
effective_annual_rate_float(r, m) ==
    IF m = 0 THEN ZeroDivisionError
    ELSE LET base == Fl(RAdd(One, Fl(RDiv(r, R(m)))))
         IN  IF base = Zero /\ m < 0 THEN ZeroDivisionError
             ELSE Num(Fl(RSub(Fl(RPow(base, m)), One)))

\* the general formulas of lines 178 and 210 (rate_per_period # 0, # -1)
PvAnnuityFormula(C, rate_per_period, total_periods) ==
    RDiv(RMul(C, RSub(One, RPow(RAdd(One, rate_per_period), -total_periods))),
         rate_per_period)

FvAnnuityFormula(C, rate_per_period, total_periods) ==
    RMul(C, RDiv(RSub(RPow(RAdd(One, rate_per_period), total_periods), One),
                 rate_per_period))

Annuity(branch, x) == [kind |-> "num", branch |-> branch, val |-> x]
AnnuityError == [kind |-> "ZeroDivisionError", branch |-> "none", val |-> Zero]

\* present_value_annuity returning C * T in the zero-rate branch
present_value_annuity_years(C, r, T, m) ==
    IF m = 0 THEN AnnuityError
    ELSE LET rate_per_period == RDiv(r, R(m))
             total_periods == m * T
         IN  IF rate_per_period = Zero
             THEN Annuity("zero_rate", RMul(C, R(T)))
             ELSE Annuity("formula", PvAnnuityFormula(C, rate_per_period, total_periods))

present_value_annuity(C, r, T, m) ==
    IF m = 0 THEN AnnuityError
    ELSE LET rate_per_period == RDiv(r, R(m))
             total_periods == m * T
         IN  IF rate_per_period = Zero
             THEN Annuity("zero_rate", RMul(C, R(total_periods)))
             ELSE Annuity("formula", PvAnnuityFormula(C, rate_per_period, total_periods))

future_value_annuity(C, r, T, m) ==
    IF m = 0 THEN AnnuityError
    ELSE LET rate_per_period == RDiv(r, R(m))
             total_periods == m * T
         IN  IF rate_per_period = Zero
             THEN Annuity("zero_rate", RMul(C, R(total_periods)))
             ELSE Annuity("formula", FvAnnuityFormula(C, rate_per_period, total_periods))

(***************************************************************************)
(* The functions on numpy values.  vs holds the arguments in the order of  *)
(* the def line; a is one element of the broadcast.                        *)
(***************************************************************************)
ElementValue(f, a) ==
    CASE f = "nominal_to_effective_rate" -> nominal_to_effective_rate(a[1], RInt(a[2])).val
      [] f = "effective_annual_rate" -> effective_annual_rate(a[1], RInt(a[2])).val
      [] f = "annualized_rate" -> annualized_rate(a[1], RInt(a[2])).val
      [] f = "present_value" -> present_value(a[1], RInt(a[2]), a[3], a[4])
      [] f = "future_value" -> future_value(a[1], a[2], RInt(a[3]), a[4])
      [] f = "payment_amount" -> payment_amount(a[1], RInt(a[2]), a[3], a[4])
      [] f = "payment_interest" -> payment_interest(a[1], RInt(a[2]), RInt(a[3]), a[4], a[5])
      [] f = "payment_principal" -> payment_principal(a[1], RInt(a[2]), RInt(a[3]), a[4], a[5])
      [] f = "present_value_annuity" ->
             present_value_annuity(a[1], a[2], RInt(a[3]), RInt(a[4])).val
      [] f = "future_value_annuity" ->
             future_value_annuity(a[1], a[2], RInt(a[3]), RInt(a[4])).val

Elementwise(f, vs) == [i \in 1..BroadcastLen(vs) |-> ElementValue(f, ElemArgs(vs, i))]

\* the five wrappers returning numpy_financial's result as it is
WrapperRaw(f, vs) ==
    IF ~Broadcastable(vs) THEN ValueError
    ELSE [kind |-> IF AllScalar(vs) THEN "numpy" ELSE "ndarray",
          val |-> Elementwise(f, vs)]

\* result = -npf.f(...); float(result) when every argument is a scalar
Wrapper(f, vs) ==
    IF ~Broadcastable(vs) THEN ValueError
    ELSE [kind |-> IF AllScalar(vs) THEN "float" ELSE "ndarray",
          val |-> Elementwise(f, vs)]

\* plain arithmetic: Python numbers give a Python number, an array an array
Conversion(f, vs) ==
    IF ~Broadcastable(vs) THEN ValueError
    ELSE [kind |-> IF AllScalar(vs) THEN "float" ELSE "ndarray",
          val |-> Elementwise(f, vs)]

\* vs = <<C, r, T, m>>, arrays non-empty.  `if rate_per_period == 0:` asks
\* for the truth value of r / m: an array of two or more elements has none;
\* the zero-rate branch returns C * total_periods, which r is no part of.
AnnuityOnArrays(f, vs) ==
    LET rate_per_period == <<vs[2], vs[4]>>
        zero_rate == <<vs[1], vs[3], vs[4]>>
    IN  IF ~Broadcastable(rate_per_period) THEN ValueError
        ELSE IF BroadcastLen(rate_per_period) > 1 THEN ValueError
        ELSE IF RDiv(Elem(vs[2], 1), Elem(vs[4], 1)) = Zero
        THEN IF ~Broadcastable(zero_rate) THEN ValueError
             ELSE [kind |-> IF AllScalar(zero_rate) THEN "float" ELSE "ndarray",
                   val |-> [i \in 1..BroadcastLen(zero_rate) |->
                               RMul(Elem(vs[1], i), RMul(Elem(vs[4], i), Elem(vs[3], i)))]]
        ELSE IF ~Broadcastable(vs) THEN ValueError
        ELSE [kind |-> IF AllScalar(vs) THEN "float" ELSE "ndarray",
              val |-> Elementwise(f, vs)]

DualMode(f, vs) ==
    CASE f \in Wrappers -> Wrapper(f, vs)
      [] f \in Conversions -> Conversion(f, vs)
      [] f \in Annuities -> AnnuityOnArrays(f, vs)

(***************************************************************************)
(* SensitivityAnalyzer: npv_values is an array over r_range; the loop runs *)
(* over the cash flows and each step adds to every element.                *)
(***************************************************************************)
RECURSIVE SensLoopNominal(_, _, _, _, _)
\* SensLoop discounting at r instead of r / m
SensLoopNominal(cash_flows, r_range, m, i, npv_values) ==
    IF i >= Len(cash_flows) THEN npv_values
    ELSE SensLoopNominal(cash_flows, r_range, m, i + 1,
             [j \in 1..Len(r_range) |->
                 RAdd(npv_values[j],
                      RDiv(R(cash_flows[i + 1]), RPow(RAdd(One, r_range[j]), i + 1)))])

RECURSIVE SensLoop(_, _, _, _, _)
\* the loop of sensitivity_analysis_npv from index i (0-based)
SensLoop(cash_flows, r_range, m, i, npv_values) ==
    IF i >= Len(cash_flows) THEN npv_values
    ELSE LET time_period == RDiv(R(i + 1), R(m))
             exponent == RInt(RMul(R(m), time_period))
         IN  SensLoop(cash_flows, r_range, m, i + 1,
                 [j \in 1..Len(r_range) |->
                     RAdd(npv_values[j],
                          RDiv(R(cash_flows[i + 1]),
                               RPow(RAdd(One, RDiv(r_range[j], R(m))), exponent)))])

sensitivity_analysis_npv(initial_investment, cash_flows, r_range, T, m) ==
    SensLoop(cash_flows, r_range, m, 0,
             [j \in 1..Len(r_range) |-> RNeg(R(initial_investment))])

(***************************************************************************)
(* np.random: one generator for the whole process.  Its state is a number, *)
(* seeding sets the state from the seed alone, and every draw moves the    *)
(* state one step and delivers the variate of the state reached.           *)
(***************************************************************************)
ZTable == <<0, -2, 1, -1, 2>>      \* standard-normal variates, by state
RngStates == 0..(Len(ZTable) - 1)
SeedValue == 42
np_random_seed(s) == s % Len(ZTable)
RngAfter(state, k) == (state + k) % Len(ZTable)
\* np.random.normal(loc, scale, size) drawn from generator state `state`
np_random_normal(state, loc, scale, size) ==
    [k \in 1..size |-> RAdd(loc, RMul(scale, R(ZTable[RngAfter(state, k) + 1])))]

RMax(a, b) == IF RLt(a, b) THEN b ELSE a
MinDiscountRate == <<1, 1000>>

\* the drawn rates used as they are
FloorNone(discount_rates) == discount_rates

\* np.maximum(discount_rates, 0.001)
Floor(discount_rates) ==
    [k \in 1..Len(discount_rates) |-> RMax(discount_rates[k], MinDiscountRate)]

RECURSIVE McLoopFromZero(_, _, _, _, _, _, _)
\* McLoop with the periods counted from 0 in the discount factor
McLoopFromZero(future_cash_flows, period, state, discount_rates, npv_results, volatility_flows, simulations) ==
    IF period > Len(future_cash_flows)
    THEN [kind |-> "return", val |-> npv_results, rng |-> state,
          discount_rates |-> discount_rates]
    ELSE LET expected_cash_flow == R(future_cash_flows[period])
             cash_flow_std == RAbs(RMul(expected_cash_flow, volatility_flows))
             simulated_cash_flows ==
                 np_random_normal(state, expected_cash_flow, cash_flow_std, simulations)
             present_values ==
                 [k \in 1..simulations |->
                     RDiv(simulated_cash_flows[k],
                          RPow(RAdd(One, discount_rates[k]), period - 1))]
         IN  McLoopFromZero(future_cash_flows, period + 1, RngAfter(state, simulations),
                    discount_rates,
                    [k \in 1..simulations |-> RAdd(npv_results[k], present_values[k])],
                    volatility_flows, simulations)

RECURSIVE McLoop(_, _, _, _, _, _, _)
\* the loop of monte_carlo_npv from period `period`; yields the results and
\* the generator state the loop leaves behind
McLoop(future_cash_flows, period, state, discount_rates, npv_results, volatility_flows, simulations) ==
    IF period > Len(future_cash_flows)
    THEN [kind |-> "return", val |-> npv_results, rng |-> state,
          discount_rates |-> discount_rates]
    ELSE LET expected_cash_flow == R(future_cash_flows[period])
             cash_flow_std == RAbs(RMul(expected_cash_flow, volatility_flows))
             simulated_cash_flows ==
                 np_random_normal(state, expected_cash_flow, cash_flow_std, simulations)
             present_values ==
                 [k \in 1..simulations |->
                     RDiv(simulated_cash_flows[k],
                          RPow(RAdd(One, discount_rates[k]), period))]
         IN  McLoop(future_cash_flows, period + 1, RngAfter(state, simulations),
                    discount_rates,
                    [k \in 1..simulations |-> RAdd(npv_results[k], present_values[k])],
                    volatility_flows, simulations)

\* monte_carlo_npv after its first statement, the generator being in `state`
McBody(state, cash_flows, discount_rate_mean, volatility_flows, volatility_rate, simulations) ==
    IF Len(cash_flows) = 0
    THEN [kind |-> "IndexError", val |-> <<>>, rng |-> state, discount_rates |-> <<>>]
    ELSE IF simulations < 0
    THEN [kind |-> "ValueError", val |-> <<>>, rng |-> state, discount_rates |-> <<>>]
    ELSE LET initial_investment == R(cash_flows[1])
             future_cash_flows == SubSeq(cash_flows, 2, Len(cash_flows))
             drawn == np_random_normal(state, discount_rate_mean, volatility_rate,
                                       simulations)
             discount_rates == Floor(drawn)
         IN  McLoop(future_cash_flows, 1, RngAfter(state, simulations), discount_rates,
                    [k \in 1..simulations |-> initial_investment],
                    volatility_flows, simulations)

\* monte_carlo_npv without np.random.seed(42)
monte_carlo_npv_unseeded(generator, cash_flows, discount_rate_mean, volatility_flows, volatility_rate, simulations) ==
    McBody(generator, cash_flows, discount_rate_mean, volatility_flows,
           volatility_rate, simulations)

\* `generator` is the state of np.random when the call starts
monte_carlo_npv(generator, cash_flows, discount_rate_mean, volatility_flows, volatility_rate, simulations) ==
    McBody(np_random_seed(SeedValue), cash_flows, discount_rate_mean, volatility_flows,
           volatility_rate, simulations)

(***************************************************************************)
(* plot_monte_carlo_results: the metrics of lines 844-851 that the         *)
(* returned dictionary carries; the standard deviation, the percentiles    *)
(* and the drawing read npv_results and change nothing.                    *)
(***************************************************************************)
RECURSIVE RSum(_, _)
\* the sum of the first n elements of a sequence of rationals
RSum(xs, n) == IF n = 0 THEN Zero ELSE RAdd(RSum(xs, n - 1), xs[n])

CountNonNegative(xs) == Cardinality({i \in 1..Len(xs) : RLe(Zero, xs[i])})
CountPositive(xs) == Cardinality({i \in 1..Len(xs) : RLt(Zero, xs[i])})

Metrics(npv_results, success_count) ==
    LET total_simulations == Len(npv_results)
        success_probability == RDiv(R(success_count), R(total_simulations))
        success_float == Fl(success_probability)
    IN  IF total_simulations = 0
        THEN [kind |-> "nan", total_simulations |-> 0]
        ELSE [kind |-> "num",
              npv_mean |-> RDiv(RSum(npv_results, total_simulations), R(total_simulations)),
              success_probability |-> success_probability,
              failure_probability |-> RSub(One, success_probability),
              success_float |-> success_float,
              failure_float |-> Fl(RSub(One, success_float)),
              total_simulations |-> total_simulations]

\* plot_monte_carlo_results counting npv_results > 0 as the successes
plot_monte_carlo_results_strict(npv_results) ==
    Metrics(npv_results, CountPositive(npv_results))

plot_monte_carlo_results(npv_results) ==
    Metrics(npv_results, CountNonNegative(npv_results))

(***************************************************************************)
(* check_uncommitted_changes.py.  The two git commands are given by what   *)
(* subprocess.run does with them; a message is its leading mark and text.  *)
(***************************************************************************)
\* run_git_command reporting a command that could not be run as a success
run_git_command_unchecked(outcome) ==
    IF outcome.raised
    THEN [returncode |-> 0, stdout |-> <<>>, stderr |-> outcome.stderr]
    ELSE [returncode |-> outcome.returncode, stdout |-> outcome.stdout,
          stderr |-> outcome.stderr]

run_git_command(outcome) ==
    IF outcome.raised
    THEN [returncode |-> 2, stdout |-> <<>>, stderr |-> outcome.stderr]
    ELSE [returncode |-> outcome.returncode, stdout |-> outcome.stdout,
          stderr |-> outcome.stderr]

\* the list a line is appended to by lines 78-93, "none" when to no list
Classify(line) ==
    IF line = <<>> THEN "none"
    ELSE IF line = <<"?", "?">> THEN "untracked_files"
    ELSE IF line[1] \in {"M", "A", "D", "R", "C"} THEN "staged_files"
    ELSE IF line[2] \in {"M", "D"} THEN "modified_files"
    ELSE "none"

CountOf(lines, list) == Cardinality({i \in 1..Len(lines) : Classify(lines[i]) = list})

\* has_uncommitted with untracked files counted in every mode
HasUncommittedAlways(strict, staged_files, modified_files, untracked_files) ==
    staged_files > 0 \/ modified_files > 0 \/ untracked_files > 0

\* has_uncommitted after lines 97-123, from the lengths of the three lists
HasUncommitted(strict, staged_files, modified_files, untracked_files) ==
    staged_files > 0 \/ modified_files > 0 \/ (untracked_files > 0 /\ strict)

CheckResult(has_changes, mark, text, classified) ==
    [has_changes |-> has_changes, mark |-> mark, text |-> text, classified |-> classified]

check_uncommitted_changes(strict, rev_parse, status) ==
    IF run_git_command(rev_parse).returncode # 0
    THEN CheckResult(TRUE, "cross", "Error: No se encuentra un repositorio Git", FALSE)
    ELSE IF run_git_command(status).returncode # 0
    THEN CheckResult(TRUE, "cross", "Error al ejecutar 'git status'", FALSE)
    ELSE LET lines == run_git_command(status).stdout
         IN  IF lines = <<>>
             THEN CheckResult(FALSE, "check", "No hay cambios sin commitear", FALSE)
             ELSE IF HasUncommitted(strict, CountOf(lines, "staged_files"),
                                    CountOf(lines, "modified_files"),
                                    CountOf(lines, "untracked_files"))
             THEN CheckResult(TRUE, "cross", "Cambios sin commitear detectados", TRUE)
             ELSE CheckResult(FALSE, "check", "No hay cambios sin commitear", TRUE)

\* the script: prints the message and exits
main(strict_mode, rev_parse, status) ==
    LET result == check_uncommitted_changes(strict_mode, rev_parse, status)
    IN  [printed |-> result.text, exit_code |-> IF result.has_changes THEN 1 ELSE 0]

(***************************************************************************)
(* Actions: one call of a public function.                                 *)
(***************************************************************************)
PresentValueCall ==
    /\ op = "none"
    /\ UNCHANGED <<rng, seen>>
    /\ \E a \in Amounts, b \in SmallInts, c \in 1..MaxPeriods, fv \in FutureValues :
        /\ op' = "present_value"
        /\ args' = [rate |-> a, nper |-> b, pmt |-> R(c), fv |-> fv]
        /\ ret' = present_value(a, b, R(c), fv)

FutureValueCall ==
    /\ op = "none"
    /\ UNCHANGED <<rng, seen>>
    /\ \E pv \in Amounts, rate \in LoanRates, nper \in 0..MaxPeriods, pmt \in FutureValues :
        /\ op' = "future_value"
        /\ args' = [pv |-> pv, rate |-> rate, nper |-> nper, pmt |-> pmt]
        /\ ret' = future_value(pv, rate, nper, pmt)

PaymentAmountCall ==
    /\ op = "none"
    /\ UNCHANGED <<rng, seen>>
    /\ \E rate \in LoanRates, nper \in 1..MaxPeriods, pv \in Principals, fv \in FutureValues :
        /\ op' = "payment_amount"
        /\ args' = [rate |-> rate, nper |-> nper, pv |-> pv, fv |-> fv]
        /\ ret' = payment_amount(rate, nper, pv, fv)

PaymentInterestCall ==
    /\ op = "none"
    /\ UNCHANGED <<rng, seen>>
    /\ \E rate \in LoanRates, nper \in 1..MaxPeriods, pv \in Principals, fv \in FutureValues :
        \E per \in 1..nper :
            /\ op' = "payment_interest"
            /\ args' = [rate |-> rate, per |-> per, nper |-> nper, pv |-> pv, fv |-> fv]
            /\ ret' = payment_interest(rate, per, nper, pv, fv)

PaymentPrincipalCall ==
    /\ op = "none"
    /\ UNCHANGED <<rng, seen>>
    /\ \E rate \in LoanRates, nper \in 1..MaxPeriods, pv \in Principals, fv \in FutureValues :
        \E per \in 1..nper :
            /\ op' = "payment_principal"
            /\ args' = [rate |-> rate, per |-> per, nper |-> nper, pv |-> pv, fv |-> fv]
            /\ ret' = payment_principal(rate, per, nper, pv, fv)

BatchLoanAnalysisCall ==
    /\ op = "none"
    /\ UNCHANGED <<rng, seen>>
    /\ \E principals \in BatchArrays, rates \in BatchArrays, periods \in BatchArrays :
        /\ op' = "batch_loan_analysis"
        /\ args' = [principals |-> principals, rates |-> rates, periods |-> periods]
        /\ ret' = batch_loan_analysis(principals, rates, periods)

NetPresentValueCall ==
    /\ op = "none"
    /\ UNCHANGED <<rng, seen>>
    /\ \E p \in NpvProjects, r \in NpvRates, T \in OptPeriods, m \in Frequencies :
        /\ op' = "net_present_value"
        /\ args' = [initial_investment |-> p[1], cash_flows |-> p[2], r |-> r, T |-> T, m |-> m]
        /\ ret' = net_present_value(p[1], p[2], r, T, m)

ProfitabilityIndexCall ==
    /\ op = "none"
    /\ UNCHANGED <<rng, seen>>
    /\ \E p \in NpvProjects, r \in NpvRates, T \in OptPeriods, m \in Frequencies :
        /\ op' = "profitability_index"
        /\ args' = [initial_investment |-> p[1], cash_flows |-> p[2], r |-> r, T |-> T, m |-> m]
        /\ ret' = profitability_index(p[1], p[2], r, T, m)

InternalRateOfReturnCall ==
    /\ op = "none"
    /\ UNCHANGED <<rng, seen>>
    /\ \E p \in IrrProjects, max_iter \in 0..MaxIter, precision \in Precisions :
        /\ op' = "internal_rate_of_return"
        /\ args' = [initial_investment |-> p[1], cash_flows |-> p[2],
                    max_iter |-> max_iter, precision |-> precision]
        /\ ret' = internal_rate_of_return(p[1], p[2], max_iter, precision)

PaybackPeriodCall ==
    /\ op = "none"
    /\ UNCHANGED <<rng, seen>>
    /\ \E cfs \in FlowLists, k \in 1..Len(InvestmentList) :
        /\ op' = "payback_period"
        /\ args' = [initial_investment |-> InvestmentList[k], cash_flows |-> cfs]
        /\ ret' = payback_period(InvestmentList[k], cfs)

SensitivityAnalysisNpvCall ==
    /\ op = "none"
    /\ UNCHANGED <<rng, seen>>
    /\ \E p \in SweepProjects, r_range \in RateRanges, T \in OptPeriods, m \in Frequencies :
        /\ op' = "sensitivity_analysis_npv"
        /\ args' = [initial_investment |-> p[1], cash_flows |-> p[2],
                    r_range |-> r_range, T |-> T, m |-> m]
        /\ ret' = sensitivity_analysis_npv(p[1], p[2], r_range, T, m)

NominalToEffectiveRateCall ==
    /\ op = "none"
    /\ UNCHANGED <<rng, seen>>
    /\ \E r \in ConversionRates, m \in ConversionFrequencies :
        /\ op' = "nominal_to_effective_rate"
        /\ args' = [r |-> r, m |-> m]
        /\ ret' = nominal_to_effective_rate(r, m)

EffectiveAnnualRateCall ==
    /\ op = "none"
    /\ UNCHANGED <<rng, seen>>
    /\ \E r \in ConversionRates, m \in ConversionFrequencies :
        /\ op' = "effective_annual_rate"
        /\ args' = [r |-> r, m |-> m]
        /\ ret' = [kind |-> effective_annual_rate(r, m).kind,
                   val |-> effective_annual_rate(r, m).val,
                   float |-> effective_annual_rate_float(Fl(r), m).val]

AnnualizedRateCall ==
    /\ op = "none"
    /\ UNCHANGED <<rng, seen>>
    /\ \E r \in ConversionRates, m \in ConversionFrequencies :
        /\ op' = "annualized_rate"
        /\ args' = [r |-> r, m |-> m]
        /\ ret' = annualized_rate(r, m)

PresentValueAnnuityCall ==
    /\ op = "none"
    /\ UNCHANGED <<rng, seen>>
    /\ \E C \in AnnuityPayments, r \in AnnuityRates, T \in AnnuityYears,
          m \in AnnuityFrequencies :
        /\ op' = "present_value_annuity"
        /\ args' = [C |-> C, r |-> r, T |-> T, m |-> m]
        /\ ret' = present_value_annuity(C, r, T, m)

FutureValueAnnuityCall ==
    /\ op = "none"
    /\ UNCHANGED <<rng, seen>>
    /\ \E C \in AnnuityPayments, r \in AnnuityRates, T \in AnnuityYears,
          m \in AnnuityFrequencies :
        /\ op' = "future_value_annuity"
        /\ args' = [C |-> C, r |-> r, T |-> T, m |-> m]
        /\ ret' = future_value_annuity(C, r, T, m)

\* a call of a dual-mode function on numpy values: every argument a scalar
\* (array_arg = 0) or argument array_arg an array and the others scalars
DualModeCall ==
    /\ op = "none"
    /\ UNCHANGED <<rng, seen>>
    /\ \E f \in DualFunctions :
        \E a \in ArgTuples(f), array_arg \in 0..Len(ArgDomains(f)) :
            \E arr \in IF array_arg = 0 THEN {<<>>} ELSE ArgArrays(f, array_arg) :
                LET vs == [j \in 1..Len(a) |->
                              IF j = array_arg THEN Array(arr) ELSE Scalar(a[j])]
                IN  /\ op' = "dual_mode_call"
                    /\ args' = [function |-> f, array_arg |-> array_arg, values |-> vs]
                    /\ ret' = DualMode(f, vs)

MonteCarloNpvCall ==
    /\ op = "none"
    /\ \E cash_flows \in McFlows, discount_rate_mean \in McMeans,
          volatility_flows \in McFlowVolatilities,
          volatility_rate \in McRateVolatilities, simulations \in Simulations :
        LET result == monte_carlo_npv(rng, cash_flows, discount_rate_mean,
                                      volatility_flows, volatility_rate, simulations)
        IN  /\ op' = "monte_carlo_npv"
            /\ args' = [cash_flows |-> cash_flows,
                        discount_rate_mean |-> discount_rate_mean,
                        volatility_flows |-> volatility_flows,
                        volatility_rate |-> volatility_rate,
                        simulations |-> simulations]
            /\ ret' = [kind |-> result.kind, val |-> result.val,
                       discount_rates |-> result.discount_rates]
            /\ rng' = result.rng
    /\ UNCHANGED seen

PlotMonteCarloResultsCall ==
    /\ op = "none"
    /\ UNCHANGED <<rng, seen>>
    /\ \E npv_results \in OutcomeArrays :
        /\ op' = "plot_monte_carlo_results"
        /\ args' = [npv_results |-> npv_results]
        /\ ret' = plot_monte_carlo_results(npv_results)

\* any other code of the process draws once from np.random
ExternalDraw ==
    /\ op = "none"
    /\ rng' = RngAfter(rng, 1)
    /\ UNCHANGED <<op, args, ret, seen>>

\* git status is run only when git rev-parse exited with 0
CheckUncommittedChangesCall ==
    /\ op = "none"
    /\ UNCHANGED <<rng, seen>>
    /\ \E strict \in BOOLEAN, rev_parse \in RevParseOutcomes, status \in StatusOutcomes :
        /\ run_git_command(rev_parse).returncode # 0 => status = rev_parse
        /\ op' = "check_uncommitted_changes"
        /\ args' = [strict |-> strict, rev_parse |-> rev_parse, status |-> status]
        /\ ret' = check_uncommitted_changes(strict, rev_parse, status)

MainRun ==
    /\ op = "none"
    /\ UNCHANGED <<rng, seen>>
    /\ \E strict_mode \in BOOLEAN, rev_parse \in RevParseOutcomes, status \in StatusOutcomes :
        /\ run_git_command(rev_parse).returncode # 0 => status = rev_parse
        /\ op' = "main"
        /\ args' = [strict_mode |-> strict_mode, rev_parse |-> rev_parse, status |-> status]
        /\ ret' = main(strict_mode, rev_parse, status)

Init ==
    /\ op = "none"
    /\ args = <<>>
    /\ ret = <<>>
    /\ rng \in RngStates
    /\ seen = <<>>

\* the call is over: nothing of it is kept, the caller may call again
Return ==
    /\ op # "none"
    /\ op' = "none"
    /\ args' = <<>>
    /\ ret' = <<>>
    /\ rng' = rng
    /\ \E remember \in BOOLEAN :
           seen' = IF op = "monte_carlo_npv" /\ remember
                   THEN [args |-> args, ret |-> ret]
                   ELSE seen

Next ==
    \/ PresentValueCall
    \/ FutureValueCall
    \/ PaymentAmountCall
    \/ PaymentInterestCall
    \/ PaymentPrincipalCall
    \/ BatchLoanAnalysisCall
    \/ NetPresentValueCall
    \/ ProfitabilityIndexCall
    \/ InternalRateOfReturnCall
    \/ PaybackPeriodCall
    \/ SensitivityAnalysisNpvCall
    \/ NominalToEffectiveRateCall
    \/ EffectiveAnnualRateCall
    \/ AnnualizedRateCall
    \/ PresentValueAnnuityCall
    \/ FutureValueAnnuityCall
    \/ DualModeCall
    \/ PlotMonteCarloResultsCall
    \/ Return

Spec == Init /\ [][Next]_vars

\* the Monte Carlo simulator and the other users of np.random
NextMC ==
    \/ MonteCarloNpvCall
    \/ ExternalDraw
    \/ Return

SpecMC == Init /\ [][NextMC]_vars

\* the repository checker
NextGit ==
    \/ CheckUncommittedChangesCall
    \/ MainRun
    \/ Return

SpecGit == Init /\ [][NextGit]_vars

(***************************************************************************)
(* Helpers of the properties.                                              *)
(***************************************************************************)
RECURSIVE SumSeq(_)
SumSeq(s) == IF s = <<>> THEN 0 ELSE s[1] + SumSeq(Tail(s))

PrefixSum(s, k) == SumSeq(SubSeq(s, 1, k))

\* x rounded to hundredths, as a number of hundredths
Cents(x) == (x[1] * 200 + x[2]) \div (2 * x[2])

HasPositive(s) == \E k \in 1..Len(s) : s[k] > 0
AllNonNegative(s) == \A k \in 1..Len(s) : s[k] >= 0

IsNpvScenario(cfs) ==
    /\ op = "net_present_value"
    /\ args.initial_investment = 10000
    /\ args.cash_flows = cfs
    /\ args.r = <<1, 10>>
    /\ args.T = <<3>>
    /\ args.m = 1

\* the sum of payment_principal over the periods 1..n other than skip
RECURSIVE PrincipalOfOthers(_, _, _, _, _)
PrincipalOfOthers(rate, nper, pv, k, skip) ==
    IF k = 0 THEN Zero
    ELSE RAdd(IF k = skip THEN Zero ELSE payment_principal(rate, k, nper, pv, Zero),
              PrincipalOfOthers(rate, nper, pv, k - 1, skip))

(***************************************************************************)
(* C1: batch_loan_analysis(principals, rates, periods) is the elementwise  *)
(* loan analysis: payments[i] is the fixed payment of the loan with        *)
(* principal principals[i], rate rates[i] and periods[i] periods, and      *)
(* first_interest[i], first_principal[i] are that loan's period-1 interest *)
(* and principal.                                                          *)
(***************************************************************************)
CE_C1 ==
    (op = "batch_loan_analysis"
       /\ Len(args.rates) = Len(args.principals)
       /\ Len(args.periods) = Len(args.principals)) =>
        \A i \in 1..Len(args.principals) :
            LET rate == R(args.rates[i])
                nper == args.periods[i]
                pv == R(args.principals[i])
            IN  /\ ret.payments[i] = payment_amount(rate, nper, pv, Zero)
                /\ ret.first_interest[i] = payment_interest(rate, 1, nper, pv, Zero)
                /\ ret.first_principal[i] = payment_principal(rate, 1, nper, pv, Zero)

Thm_C3 ==
    (op = "payment_principal" /\ args.fv = Zero) =>
        RAdd(ret, PrincipalOfOthers(args.rate, args.nper, args.pv, args.nper, args.per))
            = args.pv

W_C3 ==
    /\ op = "payment_principal"
    /\ args.fv = Zero
    /\ args.rate = <<1, 10>>
    /\ args.nper = 3
    /\ args.per = 2
    /\ RLt(Zero, ret)
    /\ RLt(ret, args.pv)

(***************************************************************************)
(* C4: present_value(cashFlow, rate, periods), called with its arguments   *)
(* in that order, returns cashFlow / (1 + rate)^periods.                   *)
(***************************************************************************)
CE_C4 ==
    (op = "present_value" /\ args.fv = Zero) =>
        LET cashFlow == args.rate       \* first positional argument
            rate == R(args.nper)        \* second
            periods == RInt(args.pmt)   \* third
        IN  ret = RDiv(cashFlow, RPow(RAdd(One, rate), periods))

(***************************************************************************)
(* C5: for every amount X, nonzero rate r and period count n,              *)
(* future_value(present_value(X, r, n), r, n) is X.                        *)
(***************************************************************************)
CE_C5 ==
    (op = "present_value" /\ args.fv = Zero /\ args.nper # 0) =>
        LET X == args.rate              \* first positional argument
            r == R(args.nper)           \* second
            n == RInt(args.pmt)         \* third
        IN  future_value(ret, r, n, Zero) = X

Thm_C8 ==
    (op = "internal_rate_of_return" /\ ret.exit = "converged") =>
        RLt(RAbs(net_present_value(args.initial_investment, args.cash_flows,
                                   ret.rate, <<>>, 1)),
            args.precision)

W_C8 ==
    /\ op = "internal_rate_of_return"
    /\ ret.exit = "converged"
    /\ ret.iters >= 3
    /\ args.cash_flows # <<>>
    /\ ret.rate # InitialRate

(***************************************************************************)
(* C9: internal_rate_of_return returns a rate after at most max_iter       *)
(* iterations, by one of three exits (|NPV| < precision, derivative zero,  *)
(* max_iter exhausted); no arithmetic failure occurs.                      *)
(***************************************************************************)
CE_C9 ==
    op = "internal_rate_of_return" =>
        /\ ret.kind = "return"
        /\ ret.exit \in {"converged", "stalled", "exhausted"}
        /\ ret.iters <= args.max_iter

(***************************************************************************)
(* C10 (as stated): payback_period returns float('inf') whenever           *)
(* sum(flows) < I, for every cash-flow list.                               *)
(***************************************************************************)
CE_C10 ==
    (op = "payback_period" /\ SumSeq(args.cash_flows) < args.initial_investment) =>
        ret.kind = "inf"

(***************************************************************************)
(* C10 (amended): payback_period returns float('inf') whenever every       *)
(* running total of the cash flows is less than I; for non-negative flows  *)
(* that is whenever sum(flows) < I.                                        *)
(***************************************************************************)
Thm_C10 ==
    /\ (/\ op = "payback_period"
        /\ \A k \in 1..Len(args.cash_flows) :
               PrefixSum(args.cash_flows, k) < args.initial_investment) =>
            ret.kind = "inf"
    /\ (/\ op = "payback_period"
        /\ AllNonNegative(args.cash_flows)
        /\ SumSeq(args.cash_flows) < args.initial_investment) =>
            ret.kind = "inf"

W_C10 ==
    /\ op = "payback_period"
    /\ args.cash_flows = <<1, 5>>
    /\ args.initial_investment = 8
    /\ ret.kind = "inf"

\* the first period (1-based) whose running total reaches I, 0 when there is none
FirstCrossing(cfs, I) ==
    LET reached == {k \in 1..Len(cfs) : PrefixSum(cfs, k) >= I}
    IN  IF reached = {} THEN 0 ELSE CHOOSE k \in reached : \A j \in reached : k <= j

(***************************************************************************)
(* C11: when the running total first reaches I at period k, payback_period *)
(* returns (k-1) + (I - C_{k-1}) / flows[k-1], a value in [k-1, k], and    *)
(* the call never fails.                                                   *)
(***************************************************************************)
CE_C11 ==
    (op = "payback_period"
       /\ FirstCrossing(args.cash_flows, args.initial_investment) > 0) =>
        LET k == FirstCrossing(args.cash_flows, args.initial_investment)
        IN  /\ ret.kind = "num"
            /\ RLe(R(k - 1), ret.val)
            /\ RLe(ret.val, R(k))

(***************************************************************************)
(* C12: sensitivity_analysis_npv returns an array as long as r_range whose *)
(* j-th element is net_present_value(I, flows, r_range[j], T, m).          *)
(***************************************************************************)
Thm_C12 ==
    op = "sensitivity_analysis_npv" =>
        /\ Len(ret) = Len(args.r_range)
        /\ \A j \in 1..Len(args.r_range) :
               ret[j] = net_present_value(args.initial_investment, args.cash_flows,
                                          args.r_range[j], args.T, args.m)

W_C12 ==
    /\ op = "sensitivity_analysis_npv"
    /\ Len(args.r_range) = 2
    /\ args.r_range[1] # args.r_range[2]
    /\ args.m = 2
    /\ Len(args.cash_flows) = 2
    /\ ret[1] # ret[2]

(***************************************************************************)
(* C13: a monte_carlo_npv call with the parameters of an earlier call      *)
(* returns what the earlier call returned, whatever was drawn in between.  *)
(***************************************************************************)
Thm_C13 ==
    (op = "monte_carlo_npv" /\ seen # <<>> /\ seen.args = args) => ret = seen.ret

W_C13 ==
    /\ op = "monte_carlo_npv"
    /\ seen # <<>>
    /\ seen.args = args
    /\ args.simulations = 2
    /\ Len(args.cash_flows) = 3
    /\ args.volatility_flows # Zero
    /\ args.volatility_rate # Zero
    /\ ret.kind = "return"
    /\ ret.val[1] # ret.val[2]

(***************************************************************************)
(* C14: a call of an engine operation leaves the state of the process-wide *)
(* random generator as it found it.                                        *)
(***************************************************************************)
CE_C14 == [][op' # "none" => rng' = rng]_vars

(***************************************************************************)
(* C15: monte_carlo_npv never returns a result when simulations <= 0.      *)
(***************************************************************************)
CE_C15 ==
    (op = "monte_carlo_npv" /\ args.simulations <= 0) => ret.kind # "return"

(***************************************************************************)
(* C18: batch_loan_analysis never returns a result when principals, rates  *)
(* and periods do not all have the same length.                            *)
(***************************************************************************)
CE_C18 ==
    (op = "batch_loan_analysis"
       /\ ~(Len(args.rates) = Len(args.principals)
            /\ Len(args.periods) = Len(args.principals))) =>
        ret.kind # "return"

(***************************************************************************)
(* C16: present_value, future_value, payment_amount, payment_interest and  *)
(* payment_principal, called with scalars only, return a plain float: the  *)
(* value of the function, not an array and not a numpy object.             *)
(***************************************************************************)
Thm_C16 ==
    (op = "dual_mode_call" /\ args.function \in Wrappers /\ AllScalar(args.values)) =>
        /\ ret.kind = "float"
        /\ ret.val = <<ElementValue(args.function, ElemArgs(args.values, 1))>>

W_C16 ==
    /\ op = "dual_mode_call"
    /\ args.function = "payment_interest"
    /\ AllScalar(args.values)
    /\ ret.kind = "float"
    /\ ret.val[1] # Zero

(***************************************************************************)
(* C17: a dual-mode function called with one array argument of length k    *)
(* and scalars elsewhere returns an array of length k whose j-th element   *)
(* is the function applied to the j-th array element.                      *)
(***************************************************************************)
CE_C17 ==
    (op = "dual_mode_call" /\ args.array_arg # 0) =>
        /\ ret.kind = "ndarray"
        /\ Len(ret.val) = Len(args.values[args.array_arg].elems)
        /\ \A j \in 1..Len(ret.val) :
               ret.val[j] = ElementValue(args.function, ElemArgs(args.values, j))

(***************************************************************************)
(* C19: for every C, T and m >= 1, present_value_annuity(C, 0, T, m) and   *)
(* future_value_annuity(C, 0, T, m) return C*m*T through the zero-rate     *)
(* branch, without dividing by zero.                                       *)
(***************************************************************************)
Thm_C19 ==
    (op \in Annuities /\ args.r = Zero /\ args.m >= 1) =>
        /\ ret.kind = "num"
        /\ ret.branch = "zero_rate"
        /\ ret.val = RMul(args.C, R(args.m * args.T))

W_C19 ==
    /\ op = "present_value_annuity"
    /\ args.r = Zero
    /\ args.m = 2
    /\ args.T = 2
    /\ args.C = R(100)
    /\ ret.val = R(400)

(***************************************************************************)
(* C20: nominal_to_effective_rate, effective_annual_rate and               *)
(* annualized_rate never return a number when m <= 0.                      *)
(***************************************************************************)
CE_C20 ==
    (op \in Conversions /\ args.m <= 0) => ret.kind # "num"

(***************************************************************************)
(* C21: for r > 0 and m >= 1 the float effective_annual_rate(r, m) returns *)
(* is at least the float r it was given.                                   *)
(***************************************************************************)
CE_C21 ==
    (op = "effective_annual_rate" /\ args.m >= 1 /\ RLt(Zero, args.r)) =>
        RLe(Fl(args.r), ret.float)

(***************************************************************************)
(* C22: for a non-empty result array success_probability is the fraction   *)
(* of outcomes >= 0, failure_probability the fraction of outcomes < 0,     *)
(* and the two add up to 1, as exact numbers and as the floats returned.   *)
(***************************************************************************)
Thm_C22 ==
    (op = "plot_monte_carlo_results" /\ Len(args.npv_results) > 0) =>
        LET xs == args.npv_results
            n == Len(xs)
            negative == Cardinality({i \in 1..n : RLt(xs[i], Zero)})
        IN  /\ ret.kind = "num"
            /\ ret.success_probability = RDiv(R(n - negative), R(n))
            /\ ret.failure_probability = RDiv(R(negative), R(n))
            /\ RAdd(ret.success_probability, ret.failure_probability) = One
            /\ Fl(RAdd(ret.success_float, ret.failure_float)) = One

W_C22 ==
    /\ op = "plot_monte_carlo_results"
    /\ args.npv_results = <<R(-5), Zero, R(5)>>
    /\ ret.success_probability = <<2, 3>>
    /\ ret.failure_float # Fl(<<1, 3>>)

\* git status ran and exited with 0: its lines
GitLines == args.status.stdout
GitStatusSucceeded ==
    /\ op = "check_uncommitted_changes"
    /\ run_git_command(args.rev_parse).returncode = 0
    /\ run_git_command(args.status).returncode = 0
IsStaged(line) == line # <<>> /\ line # <<"?", "?">> /\ line[1] \in {"M", "A", "D", "R", "C"}
IsUnstagedModification(line) ==
    line # <<>> /\ line # <<"?", "?">> /\ ~IsStaged(line) /\ line[2] \in {"M", "D"}

(***************************************************************************)
(* C23: when git status succeeds, an empty status gives (False, check      *)
(* mark); a staged entry or an unstaged modification gives (True, cross);  *)
(* a status of untracked entries only gives True exactly in strict mode.   *)
(***************************************************************************)
Thm_C23 ==
    GitStatusSucceeded =>
        /\ GitLines = <<>> => (~ret.has_changes /\ ret.mark = "check")
        /\ (\E i \in 1..Len(GitLines) :
                IsStaged(GitLines[i]) \/ IsUnstagedModification(GitLines[i]))
               => (ret.has_changes /\ ret.mark = "cross")
        /\ (GitLines # <<>> /\ \A i \in 1..Len(GitLines) : GitLines[i] = <<"?", "?">>)
               => /\ ret.has_changes = args.strict
                  /\ ret.mark = IF args.strict THEN "cross" ELSE "check"

W_C23 ==
    /\ GitStatusSucceeded
    /\ GitLines = <<<<"?", "?">>, <<"?", "?">>>>
    /\ ~args.strict
    /\ ~ret.has_changes

(***************************************************************************)
(* C24: outside a git repository, or when a git command fails or cannot be *)
(* run, check_uncommitted_changes returns (True, cross-marked error) and   *)
(* classifies no status line.                                              *)
(***************************************************************************)
Thm_C24 ==
    (op = "check_uncommitted_changes"
       /\ (args.rev_parse.raised \/ args.rev_parse.returncode # 0
           \/ args.status.raised \/ args.status.returncode # 0)) =>
        /\ ret.has_changes
        /\ ret.mark = "cross"
        /\ ~ret.classified

W_C24 ==
    /\ op = "check_uncommitted_changes"
    /\ args.rev_parse = GitSucceeded(<<>>)
    /\ args.status = GitRaised
    /\ ret.has_changes

(***************************************************************************)
(* C25: the script exits with 0 without uncommitted changes, with 1 with   *)
(* uncommitted changes, and with 2 when git could not be run or failed.    *)
(***************************************************************************)
CE_C25 ==
    op = "main" =>
        LET result == check_uncommitted_changes(args.strict_mode, args.rev_parse, args.status)
            git_error == \/ run_git_command(args.rev_parse).returncode # 0
                         \/ run_git_command(args.status).returncode # 0
        IN  ret.exit_code = IF git_error THEN 2
                            ELSE IF result.has_changes THEN 1 ELSE 0

(***************************************************************************)
(* C29: when git status lists an entry for a tracked file, i.e. a line     *)
(* other than '??', check_uncommitted_changes returns has_changes = True.  *)
(***************************************************************************)
CE_C29 ==
    (GitStatusSucceeded
       /\ \E i \in 1..Len(GitLines) : GitLines[i] # <<>> /\ GitLines[i] # <<"?", "?">>) =>
        ret.has_changes

(***************************************************************************)
(* C26: every discount rate monte_carlo_npv discounts with is at least     *)
(* 0.001, whatever the mean and the volatility, so that every discount     *)
(* factor (1 + rate)^period is greater than 1.                             *)
(***************************************************************************)
Thm_C26 ==
    (op = "monte_carlo_npv" /\ ret.kind = "return") =>
        /\ Len(ret.discount_rates) = args.simulations
        /\ \A k \in 1..Len(ret.discount_rates) :
               /\ RLe(MinDiscountRate, ret.discount_rates[k])
               /\ \A period \in 1..(Len(args.cash_flows) - 1) :
                      RLt(One, RPow(RAdd(One, ret.discount_rates[k]), period))

W_C26 ==
    /\ op = "monte_carlo_npv"
    /\ ret.kind = "return"
    /\ args.discount_rate_mean = <<-1, 2>>
    /\ args.volatility_rate = One
    /\ args.simulations = 2
    /\ Len(args.cash_flows) = 3
    /\ ret.discount_rates[1] = MinDiscountRate
    /\ ret.discount_rates[2] # MinDiscountRate

RECURSIVE NewtonRate(_, _, _)
\* the estimate after k Newton updates from 0.1 (no derivative on the way is 0)
NewtonRate(initial_investment, cash_flows, k) ==
    IF k = 0 THEN InitialRate
    ELSE LET rate == NewtonRate(initial_investment, cash_flows, k - 1)
             npv == RAdd(RNeg(R(initial_investment)), IrrNpv(cash_flows, rate, 0))
         IN  RSub(rate, RDiv(npv, IrrDerivative(cash_flows, rate, 0)))

(***************************************************************************)
(* C27: when max_iter iterations pass without |NPV| < precision,           *)
(* internal_rate_of_return returns the estimate of the last update as a    *)
(* plain number, as a converged call does; with max_iter = 0 that is 0.1.  *)
(***************************************************************************)
Thm_C27 ==
    (op = "internal_rate_of_return" /\ ret.exit = "exhausted") =>
        /\ ret.kind = "return"
        /\ ret.iters = args.max_iter
        /\ ret.rate = NewtonRate(args.initial_investment, args.cash_flows, args.max_iter)
        /\ args.max_iter = 0 => ret.rate = InitialRate
        /\ \A k \in 0..(args.max_iter - 1) :
               LET rate == NewtonRate(args.initial_investment, args.cash_flows, k)
               IN  ~RLt(RAbs(RAdd(RNeg(R(args.initial_investment)),
                                  IrrNpv(args.cash_flows, rate, 0))),
                        args.precision)

W_C27 ==
    /\ op = "internal_rate_of_return"
    /\ ret.exit = "exhausted"
    /\ ret.kind = "return"
    /\ args.max_iter >= 2
    /\ ret.rate # InitialRate
    /\ ~RLt(RAbs(net_present_value(args.initial_investment, args.cash_flows,
                                   ret.rate, <<>>, 1)),
            args.precision)

(***************************************************************************)
(* C28: with both volatilities 0 and a mean rate of at least 0.001 every   *)
(* element of monte_carlo_npv(cash_flows, mean, 0, 0, n) equals            *)
(* net_present_value(-cash_flows[0], cash_flows[1:], mean).                *)
(***************************************************************************)
Thm_C28 ==
    (op = "monte_carlo_npv" /\ ret.kind = "return"
       /\ args.volatility_flows = Zero /\ args.volatility_rate = Zero
       /\ RLe(MinDiscountRate, args.discount_rate_mean)) =>
        /\ Len(ret.val) = args.simulations
        /\ \A k \in 1..Len(ret.val) :
               ret.val[k] = net_present_value(-args.cash_flows[1], Tail(args.cash_flows),
                                              args.discount_rate_mean, <<>>, 1)

W_C28 ==
    /\ op = "monte_carlo_npv"
    /\ ret.kind = "return"
    /\ args.volatility_flows = Zero
    /\ args.volatility_rate = Zero
    /\ args.discount_rate_mean = <<1, 10>>
    /\ args.simulations = 2
    /\ args.cash_flows = <<-100, 60, 50>>
    /\ ret.val[2] = <<-500, 121>>

RECURSIVE DiscountedSum(_, _, _, _)
\* the first n cash flows, the p-th discounted by (1 + r/m)^p
DiscountedSum(cash_flows, r, m, n) ==
    IF n = 0 THEN Zero
    ELSE RAdd(DiscountedSum(cash_flows, r, m, n - 1),
              RDiv(R(cash_flows[n]), RPow(RAdd(One, RDiv(r, R(m))), n)))

(***************************************************************************)
(* C30: the argument T of net_present_value and profitability_index has no *)
(* effect: the result is the one obtained with T omitted, and every cash   *)
(* flow is discounted, also when T is smaller than len(cash_flows).        *)
(***************************************************************************)
Thm_C30 ==
    /\ op = "net_present_value" =>
           /\ ret = net_present_value(args.initial_investment, args.cash_flows, args.r,
                                      <<>>, args.m)
           /\ ret = RSub(DiscountedSum(args.cash_flows, args.r, args.m,
                                       Len(args.cash_flows)),
                         R(args.initial_investment))
    /\ op = "profitability_index" =>
           /\ ret = profitability_index(args.initial_investment, args.cash_flows, args.r,
                                        <<>>, args.m)
           /\ ret.kind = "num" =>
                  ret.val = RDiv(DiscountedSum(args.cash_flows, args.r, args.m,
                                               Len(args.cash_flows)),
                                 R(args.initial_investment))

W_C30 ==
    /\ op = "net_present_value"
    /\ args.T = <<1>>
    /\ args.cash_flows = <<5, 10>>
    /\ args.initial_investment = 8
    /\ args.r = <<1, 1>>
    /\ args.m = 1
    /\ ret = <<-3, 1>>

====
